---- MODULE Spec2Model ----
(***************************************************************************)
(* network-observer: the observer loop (src/src/p2p.rs), the metrics       *)
(* families it writes (src/src/metrics.rs), the scheduler status update    *)
(* (src/src/scheduler.rs) and the libp2p Transport event buffer            *)
(* (src/src/transport.rs), as one state machine.                           *)
(*                                                                         *)
(* Option<T> values are sequences of length at most one: None is <<>> and  *)
(* Some(v) is <<v>>.  A metric Family is a function whose domain is the    *)
(* set of label-sets written so far (get_or_create).                       *)
(***************************************************************************)
EXTENDS Integers, Sequences, FiniteSets, Bags, TLC

VARIABLES
    store,      \* the metric families of metrics.rs
    stream,     \* for_each_concurrent's view of take_until(msg_stream): "open" | "done"
    cancelled,  \* the CancellationToken handed to Observer::run
    inflight,   \* the futures of for_each_concurrent: a bag of Messages
    started,    \* every Message taken from the stream so far: a bag
    done,       \* message futures that have completed so far
    last,       \* the Message whose future completed last (None before the first)
    atCancel,   \* number of futures in flight when the token was cancelled
    returned,   \* Observer::run has returned
    result,     \* what Observer::run returned
    overflow_checks, \* the build profile: integer overflow panics (dev) or wraps (release)
    crashed,    \* the task of Observer::run has panicked
    sched,      \* what the last call of collect_scheduler_metrics was given and returned
    dialed,     \* the peers and addresses the Transport has asked the swarm to dial
    events,     \* Transport.events, the VecDeque<Event>
    tpc,        \* where Transport::poll_event is: "idle" (not in a call) | "loop"
    ret,        \* what the last Stream::poll_next call on Transport returned (NotPolled before)
    swarmed,    \* swarm events taken by poll_event so far
    lastSwarm,  \* the swarm event poll_event took last (None before the first)
    panicked    \* an unwrap() of transport.rs met None

obsVars == <<store, stream, cancelled, inflight, started, done, last, atCancel, returned, result,
            overflow_checks, crashed>>
trVars == <<events, tpc, ret, swarmed, lastSwarm, panicked, dialed>>
schedVars == <<sched>>
vars == <<store, stream, cancelled, inflight, started, done, last, atCancel, returned,
          result, overflow_checks, crashed, sched, dialed,
          events, tpc, ret, swarmed, lastSwarm, panicked>>

-----------------------------------------------------------------------------
(* Bounds of the model. *)

\* messages a run of the content specifications pulls from the stream
MaxMsgs == 2
\* messages a run of the concurrency specification pulls (more than CONCURRENT_MESSAGES)
MaxRunMsgs == 34
\* messages a run of the batch specification pulls
MaxQueryMsgs == 1
\* records of a QueryLogs batch
MaxBatch == 3
\* swarm events one Transport run takes
MaxSwarm == 3
\* addresses of one RoutingUpdated event
MaxAddrs == 2
\* bits of a StoredRange bound.  begin and end are u32; the model keeps the
\* arithmetic of the source and scales the width from 32 bits to RangeBits,
\* so that the modulus 2^RangeBits is a number TLC's integers hold
RangeBits == 8
\* ranges of one heartbeat of the chunk-count specification
MaxRanges == 2
\* elements of the JSON array the scheduler returns
MaxWorkers == 2
\* calls of collect_scheduler_metrics in one run
MaxCalls == 2

-----------------------------------------------------------------------------
(* Option *)

None == <<>>
Some(v) == <<v>>
IsSome(o) == o # <<>>
Unwrap(o) == o[1]

-----------------------------------------------------------------------------
(* Identities *)

CONCURRENT_MESSAGES == 32

PeerIds == {"P1", "P2", "LC"}

\* Observer.logs_collector_id, set by create_observer from the command line
logs_collector_id == "LC"

\* PeerId::to_string: the base58 text of the identity (injective)
to_string(peer_id) == "12D3KooW" \o peer_id

-----------------------------------------------------------------------------
(* Metric families (metrics.rs).  WorkerLabels{peer_id: Option<String>} is  *)
(* the Option itself, PingLabels is the pair <<peer_id, version>>,          *)
(* ClientLabels{client_id: Option<String>} is the Option itself.            *)

EmptyFamily == [k \in {} |-> 0]

\* inc() on an entry made anew at every call
IncOnFreshEntry(family, labels) ==
    IF labels \in DOMAIN family
    THEN [family EXCEPT ![labels] = 1]
    ELSE family @@ (labels :> 1)

\* Family::get_or_create(labels).inc()
Inc(family, labels) ==
    IF labels \in DOMAIN family
    THEN [family EXCEPT ![labels] = @ + 1]
    ELSE family @@ (labels :> 1)

\* Family::get_or_create(labels).set(value).  The gauges are Gauge<i64> and
\* their callers cast u64 values with `as i64`: the identity on the values
\* of this model, which are all below 2^63
Set(family, labels, value) ==
    IF labels \in DOMAIN family
    THEN [family EXCEPT ![labels] = value]
    ELSE family @@ (labels :> value)

\* the value an exposition of the family shows for labels (0 when never written)
Value(family, labels) == IF labels \in DOMAIN family THEN family[labels] ELSE 0

EmptyStore ==
    [INVALID_MESSAGES     |-> EmptyFamily,
     PING                 |-> EmptyFamily,
     STORED_BYTES         |-> EmptyFamily,
     STORED_CHUNKS        |-> EmptyFamily,
     LAST_COLLECTED_LOG   |-> EmptyFamily,
     QUERIES_OK           |-> EmptyFamily,
     QUERIES_BAD_REQUEST  |-> EmptyFamily,
     QUERIES_SERVER_ERROR |-> EmptyFamily,
     LAST_EXECUTED_QUERY  |-> EmptyFamily,
     QUERIES_BY_CLIENT    |-> EmptyFamily,
     NUM_MISSING_CHUNKS   |-> EmptyFamily,
     ASSIGNED_UNITS       |-> EmptyFamily,
     ASSIGNED_BYTES       |-> EmptyFamily,
     LAST_ASSIGNMENT      |-> EmptyFamily,
     SCHEDULER_STORED_BYTES |-> EmptyFamily]

invalid_message(s, peer_id) ==
    [s EXCEPT !.INVALID_MESSAGES =
        Inc(@, IF IsSome(peer_id) THEN Some(to_string(Unwrap(peer_id))) ELSE None)]

\* report_ping with the two gauges taking each other's value
report_ping_gauges_swapped(s, peer_id, version, stored_bytes, chunks) ==
    [s EXCEPT !.PING          = Inc(@, <<to_string(peer_id), version>>),
              !.STORED_BYTES  = Set(@, Some(to_string(peer_id)), chunks),
              !.STORED_CHUNKS = Set(@, Some(to_string(peer_id)), stored_bytes)]

report_ping(s, peer_id, version, stored_bytes, chunks) ==
    [s EXCEPT !.PING          = Inc(@, <<to_string(peer_id), version>>),
              !.STORED_BYTES  = Set(@, Some(to_string(peer_id)), stored_bytes),
              !.STORED_CHUNKS = Set(@, Some(to_string(peer_id)), chunks)]

\* report_logs_collected keeping the greater of the old and the new value
report_logs_collected_monotonic(s, peer_id, seq_no) ==
    [s EXCEPT !.LAST_COLLECTED_LOG =
        Set(@, Some(peer_id),
            IF Value(@, Some(peer_id)) > seq_no THEN Value(@, Some(peer_id)) ELSE seq_no)]

report_logs_collected(s, peer_id, seq_no) ==
    [s EXCEPT !.LAST_COLLECTED_LOG = Set(@, Some(peer_id), seq_no)]

report_scheduler_status(s, status) ==
    LET worker == Some(status.peer_id)
    IN  [s EXCEPT !.NUM_MISSING_CHUNKS     = Set(@, worker, status.num_missing_chunks),
                  !.ASSIGNED_UNITS         = Set(@, worker, Len(status.assigned_units)),
                  !.ASSIGNED_BYTES         = Set(@, worker, status.assigned_bytes),
                  !.LAST_ASSIGNMENT        = Set(@, worker, status.last_assignment),
                  !.SCHEDULER_STORED_BYTES = Set(@, worker, status.stored_bytes)]

\* metrics::report_query_executed is called by p2p.rs and is not part of
\* metrics.rs as given: one outcome counter of the worker, the worker's
\* last-executed-query gauge and the client's counter, after the families
\* metrics.rs declares (QUERIES_OK .. QUERIES_BY_CLIENT).
report_query_executed(s, peer_id, outcome, seq_no, client_id) ==
    LET worker == Some(to_string(peer_id))
        counted ==
            CASE outcome = "Ok"          -> [s EXCEPT !.QUERIES_OK = Inc(@, worker)]
              [] outcome = "BadRequest"  -> [s EXCEPT !.QUERIES_BAD_REQUEST = Inc(@, worker)]
              [] outcome = "ServerError" -> [s EXCEPT !.QUERIES_SERVER_ERROR = Inc(@, worker)]
              [] OTHER                   -> s
    IN  [counted EXCEPT !.LAST_EXECUTED_QUERY = Set(@, worker, seq_no),
                        !.QUERIES_BY_CLIENT   = Inc(@, Some(client_id))]

-----------------------------------------------------------------------------
(* p2p.rs *)

\* SignedMessage::verify_signature(&peer_id): the message carries the key its
\* signature was made with (signed_by) and whether payload and signature are
\* the bytes that were signed (intact)
verify_signature(m, peer_id) == m.intact /\ m.signed_by = peer_id

\* the values of a StoredRange bound (u32, scaled): 0 .. RangeMax
RangeModulus == 2 ^ RangeBits
RangeMax == RangeModulus - 1

\* r.end - r.begin + 1 leaves the type: the subtraction when end < begin,
\* the addition when the difference is RangeMax
RangeOverflows(r) == r.end < r.begin \/ r.end - r.begin + 1 > RangeMax

\* the term computed in the integers, negative when end < begin
RangeChunksSigned(r) == r.end - r.begin + 1

\* one StoredRange's term of total_chunks, (r.end - r.begin + 1) as u64,
\* as a build without overflow checks computes it: modulo the width
RangeChunks(r) == (r.end - r.begin + 1) % RangeModulus

RECURSIVE SumRanges(_)
SumRanges(ranges) ==
    IF ranges = <<>> THEN 0
    ELSE RangeChunks(Head(ranges)) + SumRanges(Tail(ranges))

\* the value total_chunks returns when it returns
RECURSIVE total_chunks(_)
total_chunks(datasets) ==
    IF datasets = <<>> THEN 0
    ELSE SumRanges(Head(datasets).ranges) + total_chunks(Tail(datasets))

\* total_chunks panics instead of returning: the build checks overflow and
\* the term of some range overflows
total_chunks_panics(datasets) ==
    /\ overflow_checks
    /\ \E i \in 1..Len(datasets) :
           \E j \in 1..Len(datasets[i].ranges) : RangeOverflows(datasets[i].ranges[j])

\* what a handler leaves: Ok(()), an error, or a panic that unwinds the task
Ok(s) == [ok |-> TRUE, unwinds |-> FALSE, store |-> s]
Err(s) == [ok |-> FALSE, unwinds |-> FALSE, store |-> s]
Unwind(s) == [ok |-> FALSE, unwinds |-> TRUE, store |-> s]

\* handle_ping without the comparison of worker_id with the sender
handle_ping_any_worker(s, peer_id, ping) ==
    IF ~verify_signature(ping, peer_id) THEN Err(s)
    ELSE IF ~IsSome(ping.version) THEN Err(s)
    ELSE IF total_chunks_panics(ping.stored_ranges) THEN Unwind(s)
    ELSE Ok(report_ping(s, peer_id, Unwrap(ping.version), ping.stored_bytes,
                        total_chunks(ping.stored_ranges)))

\* the Msg::Ping arm of handle_msg
handle_ping(s, peer_id, ping) ==
    IF ~verify_signature(ping, peer_id) THEN Err(s)
    ELSE IF ping.worker_id # Some(to_string(peer_id)) THEN Err(s)
    ELSE IF ~IsSome(ping.version) THEN Err(s)
    ELSE IF total_chunks_panics(ping.stored_ranges) THEN Unwind(s)
    ELSE Ok(report_ping(s, peer_id, Unwrap(ping.version), ping.stored_bytes,
                        total_chunks(ping.stored_ranges)))

\* the loop reporting the sequence numbers as they are
RECURSIVE report_all_collected_raw(_, _)
report_all_collected_raw(s, seqs) ==
    IF DOMAIN seqs = {} THEN s
    ELSE LET p == CHOOSE k \in DOMAIN seqs : TRUE
         IN  report_all_collected_raw(report_logs_collected(s, p, seqs[p]),
                                      [k \in DOMAIN seqs \ {p} |-> seqs[k]])

\* the loop of the Msg::LogsCollected arm over collected.sequence_numbers
RECURSIVE report_all_collected(_, _)
report_all_collected(s, seqs) ==
    IF DOMAIN seqs = {} THEN s
    ELSE LET p == CHOOSE k \in DOMAIN seqs : TRUE
         IN  report_all_collected(report_logs_collected(s, p, seqs[p] + 1),
                                  [k \in DOMAIN seqs \ {p} |-> seqs[k]])

\* handle_logs_collected with the origin checked after the gauges are written
handle_logs_collected_late_check(s, peer_id, collected) ==
    IF peer_id # logs_collector_id
    THEN Err(report_all_collected(s, collected.sequence_numbers))
    ELSE Ok(report_all_collected(s, collected.sequence_numbers))

\* the Msg::LogsCollected arm of handle_msg
handle_logs_collected(s, peer_id, collected) ==
    IF peer_id # logs_collector_id THEN Err(s)
    ELSE Ok(report_all_collected(s, collected.sequence_numbers))

\* the Msg::QueryLogs arm of handle_msg: the loop over logs.queries_executed,
\* left by bail!/? at the first record that fails
RECURSIVE handle_query_logs(_, _, _)
handle_query_logs(s, peer_id, queries) ==
    IF queries = <<>> THEN Ok(s)
    ELSE LET query == Head(queries)
         IN  IF ~verify_signature(query, peer_id) THEN Err(s)
             ELSE IF query.worker_id # to_string(peer_id) THEN Err(s)
             ELSE IF ~IsSome(query.result) THEN Err(s)
             ELSE IF ~IsSome(query.seq_no) THEN Err(s)
             ELSE handle_query_logs(
                      report_query_executed(s, peer_id, Unwrap(query.result),
                                            Unwrap(query.seq_no), query.client_id),
                      peer_id, Tail(queries))

\* handle_msg refusing what is none of the three handled kinds
handle_msg_unexpected_refused(s, peer_id, message) ==
    IF ~IsSome(message) THEN Err(s)
    ELSE LET msg == Unwrap(message)
         IN  CASE msg.kind = "Ping"          -> handle_ping(s, peer_id, msg)
               [] msg.kind = "LogsCollected" -> handle_logs_collected(s, peer_id, msg)
               [] msg.kind = "QueryLogs"     -> handle_query_logs(s, peer_id, msg.queries_executed)
               [] OTHER                      -> Err(s)

\* the match of handle_msg on envelope.msg; the `_` arm only warns
handle_msg(s, peer_id, message) ==
    IF ~IsSome(message) THEN Ok(s)
    ELSE LET msg == Unwrap(message)
         IN  CASE msg.kind = "Ping"          -> handle_ping(s, peer_id, msg)
               [] msg.kind = "LogsCollected" -> handle_logs_collected(s, peer_id, msg)
               [] msg.kind = "QueryLogs"     -> handle_query_logs(s, peer_id, msg.queries_executed)
               [] OTHER                      -> Ok(s)

\* Envelope::decode(msg.content): content is either bytes that are no
\* envelope or the encoding of an envelope
decode(content) ==
    IF content.wellformed THEN [ok |-> TRUE, envelope |-> [msg |-> content.msg]]
    ELSE [ok |-> FALSE]

\* process_message taking the signer of a heartbeat for the sender the
\* transport did not give
process_message_signer_as_sender(s, msg) ==
    LET decoded == decode(msg.content)
        payload == decoded.envelope.msg
        peer_id ==
            IF IsSome(msg.peer_id) THEN msg.peer_id
            ELSE IF IsSome(payload) /\ Unwrap(payload).kind = "Ping"
                 THEN Some(Unwrap(payload).signed_by)
                 ELSE None
    IN  IF ~decoded.ok THEN invalid_message(s, None)
        ELSE IF ~IsSome(peer_id) THEN invalid_message(s, None)
        ELSE LET handled == handle_msg(s, Unwrap(peer_id), payload)
             IN  IF handled.ok \/ handled.unwinds THEN handled.store
                 ELSE invalid_message(handled.store, peer_id)

\* the closure Observer::run gives to for_each_concurrent, on one Message:
\* the metrics it leaves
process_message(s, msg) ==
    LET decoded == decode(msg.content)
    IN  IF ~decoded.ok THEN invalid_message(s, None)
        ELSE IF ~IsSome(msg.peer_id) THEN invalid_message(s, None)
        ELSE LET handled == handle_msg(s, Unwrap(msg.peer_id), decoded.envelope.msg)
             IN  IF handled.ok \/ handled.unwinds THEN handled.store
                 ELSE invalid_message(handled.store, msg.peer_id)

\* the closure panics on the Message: handle_msg is reached and unwinds
process_panics(s, msg) ==
    LET decoded == decode(msg.content)
    IN  /\ decoded.ok
        /\ IsSome(msg.peer_id)
        /\ handle_msg(s, Unwrap(msg.peer_id), decoded.envelope.msg).unwinds

-----------------------------------------------------------------------------
(* Messages *)

Message(peer_id, content) == [peer_id |-> peer_id, content |-> content]
Encoded(msg) == [wellformed |-> TRUE, msg |-> msg]
Malformed == [wellformed |-> FALSE]

Ping(signed_by, intact, worker_id, version, stored_bytes, stored_ranges) ==
    [kind |-> "Ping", signed_by |-> signed_by, intact |-> intact, worker_id |-> worker_id,
     version |-> version, stored_bytes |-> stored_bytes, stored_ranges |-> stored_ranges]

LogsCollected(sequence_numbers) ==
    [kind |-> "LogsCollected", sequence_numbers |-> sequence_numbers]

QueryExecuted(signed_by, intact, worker_id, outcome, seq_no, client_id) ==
    [signed_by |-> signed_by, intact |-> intact, worker_id |-> worker_id,
     result |-> outcome, seq_no |-> seq_no, client_id |-> client_id]

QueryLogs(queries_executed) == [kind |-> "QueryLogs", queries_executed |-> queries_executed]

\* an envelope payload that is none of the three handled kinds
OtherMsg == [kind |-> "Pong"]

Ranges0to99 == <<[ranges |-> <<[begin |-> 0, end |-> 99]>>]>>
RangesTwo == <<[ranges |-> <<[begin |-> 0, end |-> 9], [begin |-> 20, end |-> 25]>>]>>

\* how a heartbeat can be signed: by P1, by P2, or by P1 with bytes changed since
SignatureCases == { <<"P1", TRUE>>, <<"P2", TRUE>>, <<"P1", FALSE>> }

\* heartbeats sent by P1: every combination of signature, worker id and version
PingPayloads ==
    { Ping(sig[1], sig[2], w, v, 1000, Ranges0to99) :
        sig \in SignatureCases,
        w \in {None, Some(to_string("P1")), Some(to_string("P2"))},
        v \in {None, Some("1.2.3")} }

ValidPing(p) == Ping(p, TRUE, Some(to_string(p)), Some("1.2.3"), 1000, Ranges0to99)

\* P1's heartbeats and a valid one of P2
PingMsgs ==
    { Message(Some("P1"), Encoded(Some(m))) : m \in PingPayloads }
    \cup { Message(Some("P2"), Encoded(Some(
               Ping("P2", TRUE, Some(to_string("P2")), Some("2.0.0"), 500, RangesTwo)))) }

SeqNoMaps ==
    { EmptyFamily,
      (to_string("P1") :> 5),
      (to_string("P1") :> 2),
      (to_string("P1") :> 7) @@ (to_string("P2") :> 0) }

LogsMsgs ==
    { Message(Some(p), Encoded(Some(LogsCollected(m)))) :
        p \in {"LC", "P1", "P2"}, m \in SeqNoMaps }

\* query records of sender P1: two valid ones and one for each way to be invalid
ValidQueries ==
    { QueryExecuted("P1", TRUE, to_string("P1"), Some("Ok"), Some(1), "client-a"),
      QueryExecuted("P1", TRUE, to_string("P1"), Some("ServerError"), Some(2), "client-b") }

InvalidQueries ==
    { QueryExecuted("P2", TRUE, to_string("P1"), Some("Ok"), Some(3), "client-a"),
      QueryExecuted("P1", TRUE, to_string("P2"), Some("Ok"), Some(3), "client-a"),
      QueryExecuted("P1", TRUE, to_string("P1"), None, Some(3), "client-a"),
      QueryExecuted("P1", TRUE, to_string("P1"), Some("BadRequest"), None, "client-a") }

QueryRecords == ValidQueries \cup InvalidQueries

Batches == UNION { [1..n -> QueryRecords] : n \in 0..MaxBatch }

QueryMsgs == { Message(Some("P1"), Encoded(Some(QueryLogs(b)))) : b \in Batches }

\* one message of every kind the loop tells apart
MixedMsgs ==
    { Message(Some("P1"), Malformed),
      Message(None, Malformed),
      Message(None, Encoded(Some(ValidPing("P1")))),
      Message(Some("P1"), Encoded(Some(ValidPing("P1")))),
      Message(Some("P2"), Encoded(Some(Ping("P2", TRUE, Some(to_string("P2")), Some("2.0.0"), 500, RangesTwo)))),
      Message(Some("P1"), Encoded(Some(Ping("P1", FALSE, Some(to_string("P1")), Some("1.2.3"), 1000, Ranges0to99)))),
      Message(Some("P1"), Encoded(Some(Ping("P1", TRUE, Some(to_string("P2")), Some("1.2.3"), 1000, Ranges0to99)))),
      Message(Some("P1"), Encoded(Some(Ping("P1", TRUE, Some(to_string("P1")), None, 1000, Ranges0to99)))),
      Message(Some("LC"), Encoded(Some(LogsCollected((to_string("P1") :> 5))))),
      Message(Some("P1"), Encoded(Some(LogsCollected((to_string("P1") :> 5))))),
      Message(Some("P1"), Encoded(Some(QueryLogs(<<CHOOSE q \in ValidQueries : q.seq_no = Some(1)>>)))),
      Message(Some("P1"), Encoded(Some(QueryLogs(<<CHOOSE q \in InvalidQueries : q.signed_by = "P2">>)))),
      Message(Some("P1"), Encoded(None)),
      Message(Some("P1"), Encoded(Some(OtherMsg))) }

\* range bounds of the chunk-count specification: the least values and the
\* greatest one of the type
ChunkBounds == {0, 1, RangeMax}

\* every StoredRange over them, with begin <= end or not
ChunkRanges == { [begin |-> b, end |-> e] : b \in ChunkBounds, e \in ChunkBounds }

RangeLists == UNION { [1..n -> ChunkRanges] : n \in 0..MaxRanges }

\* stored_ranges: no dataset, one dataset, or the ranges split over two
DatasetLists ==
    { <<>>, Ranges0to99, RangesTwo }
    \cup { <<[ranges |-> l]>> : l \in RangeLists }
    \cup UNION { { <<[ranges |-> SubSeq(l, 1, k)], [ranges |-> SubSeq(l, k + 1, Len(l))]>> :
                     k \in 1..Len(l) } : l \in RangeLists }

\* valid heartbeats of P1 that differ in their stored ranges only
ChunkMsgs ==
    { Message(Some("P1"), Encoded(Some(
          Ping("P1", TRUE, Some(to_string("P1")), Some("1.2.3"), 1000, d)))) :
        d \in DatasetLists }

\* the messages of the concurrency specification
RunMsgs == { Message(Some("P1"), Encoded(Some(ValidPing("P1")))) }

-----------------------------------------------------------------------------
(* Observer::run *)

InFlight == BagCardinality(inflight)

\* messages taken from the stream so far
Pulled == BagCardinality(started)

\* the limit taken as inclusive
UnderLimitInclusive == InFlight <= CONCURRENT_MESSAGES

\* for_each_concurrent(CONCURRENT_MESSAGES, ..) polls the stream only while
\* fewer futures than the limit are in flight
UnderLimit == InFlight < CONCURRENT_MESSAGES

\* run handing on the failure of a message
RunResultPropagated == IF DOMAIN store.INVALID_MESSAGES = {} THEN "Ok" ELSE "Err"

\* Ok(()) at the end of Observer::run
RunResult == "Ok"

ObserverInit ==
    /\ store = EmptyStore
    /\ stream = "open"
    /\ cancelled = FALSE
    /\ inflight = EmptyBag
    /\ started = EmptyBag
    /\ done = 0
    /\ last = None
    /\ atCancel = 0
    /\ returned = FALSE
    /\ result = None
    /\ overflow_checks \in BOOLEAN
    /\ crashed = FALSE

\* the signal task of main.rs cancels the token
Cancel ==
    /\ ~cancelled
    /\ ~returned
    /\ cancelled' = TRUE
    /\ atCancel' = InFlight
    /\ UNCHANGED <<store, stream, inflight, started, done, last, returned, result, overflow_checks, crashed>>
    /\ UNCHANGED <<trVars, schedVars>>

\* the stream yields a message and its future joins the futures in flight
Pull(msg, cap) ==
    /\ stream = "open"
    /\ ~returned
    /\ ~crashed
    /\ UnderLimit
    /\ ~cancelled
    /\ Pulled < cap
    /\ inflight' = inflight (+) SetToBag({msg})
    /\ started' = started (+) SetToBag({msg})
    /\ UNCHANGED <<store, stream, cancelled, done, last, atCancel, returned, result, overflow_checks, crashed>>
    /\ UNCHANGED <<trVars, schedVars>>

\* take_until sees the cancelled token at the next poll of the stream and ends it
TakeUntilFires ==
    /\ stream = "open"
    /\ ~returned
    /\ ~crashed
    /\ UnderLimit
    /\ cancelled
    /\ stream' = "done"
    /\ UNCHANGED <<store, cancelled, inflight, started, done, last, atCancel, returned, result, overflow_checks, crashed>>
    /\ UNCHANGED <<trVars, schedVars>>

\* the message stream of the transport ends by itself
EndOfStream ==
    /\ stream = "open"
    /\ ~returned
    /\ ~crashed
    /\ UnderLimit
    /\ ~cancelled
    /\ stream' = "done"
    /\ UNCHANGED <<store, cancelled, inflight, started, done, last, atCancel, returned, result, overflow_checks, crashed>>
    /\ UNCHANGED <<trVars, schedVars>>

\* one future in flight runs to its end: the closure has no suspension point
\* of its own (handle_msg awaits nothing), so it runs in one poll
Finish(msg) ==
    /\ BagIn(msg, inflight)
    /\ ~crashed
    /\ ~process_panics(store, msg)
    /\ store' = process_message(store, msg)
    /\ inflight' = inflight (-) SetToBag({msg})
    /\ done' = done + 1
    /\ last' = Some(msg)
    /\ UNCHANGED <<stream, cancelled, started, atCancel, returned, result, overflow_checks, crashed>>
    /\ UNCHANGED <<trVars, schedVars>>

\* one future in flight panics: the panic unwinds run's future, which drops
\* the futures still in flight, and ends the task main.rs spawned for run
Panic(msg) ==
    /\ BagIn(msg, inflight)
    /\ ~crashed
    /\ process_panics(store, msg)
    /\ store' = process_message(store, msg)
    /\ inflight' = EmptyBag
    /\ last' = Some(msg)
    /\ crashed' = TRUE
    /\ UNCHANGED <<stream, cancelled, started, done, atCancel, returned, result, overflow_checks>>
    /\ UNCHANGED <<trVars, schedVars>>

\* run returning at the end of the stream with futures still in flight
ReturnWithoutDrain ==
    /\ stream = "done"
    /\ ~returned
    /\ ~crashed
    /\ returned' = TRUE
    /\ result' = Some(RunResult)
    /\ UNCHANGED <<store, stream, cancelled, inflight, started, done, last, atCancel, overflow_checks, crashed>>
    /\ UNCHANGED <<events, tpc, ret, swarmed, lastSwarm, panicked, dialed, sched>>

\* for_each_concurrent is Ready once the stream is done and no future is left
Return ==
    /\ stream = "done"
    /\ InFlight = 0
    /\ ~returned
    /\ ~crashed
    /\ returned' = TRUE
    /\ result' = Some(RunResult)
    /\ UNCHANGED <<store, stream, cancelled, inflight, started, done, last, atCancel, overflow_checks, crashed>>
    /\ UNCHANGED <<trVars, schedVars>>

-----------------------------------------------------------------------------
(* transport.rs *)

Addrs == {"/ip4/10.0.0.1", "/ip4/10.0.0.2"}

\* args.boot_nodes: Transport::build gives each to kademlia and dials its peer
BootNodes == {"B1"}

\* Event::PeerSeen and Event::Ping
PeerSeen(peer_id, address) == [tag |-> "PeerSeen", peer_id |-> peer_id, address |-> address]
PingEvent(event) == [tag |-> "Ping", event |-> event]

\* libp2p::kad::Event
RoutingUpdated(peer, addresses) ==
    [kind |-> "RoutingUpdated", peer |-> peer, addresses |-> addresses]
RoutablePeer(peer, address) == [kind |-> "RoutablePeer", peer |-> peer, address |-> address]
UnroutablePeer(peer) == [kind |-> "UnroutablePeer", peer |-> peer]

\* SwarmEvent
Behaviour(proto, event) == [type |-> "Behaviour", proto |-> proto, event |-> event]
NewListenAddr == [type |-> "NewListenAddr"]
ConnectionEstablished == [type |-> "ConnectionEstablished"]

\* libp2p's Addresses of a RoutingUpdated: never empty
AddressLists == UNION { [1..n -> Addrs] : n \in 1..MaxAddrs }

KademliaEvents ==
    { RoutingUpdated("P1", a) : a \in AddressLists }
    \cup { RoutablePeer(p, a) : p \in {"P1", "P2"}, a \in Addrs }
    \cup { UnroutablePeer("P2") }

SwarmEvents ==
    { NewListenAddr, ConnectionEstablished,
      Behaviour("Ping", [peer |-> "P1", rtt |-> Some(20)]),
      Behaviour("Identify", [peer |-> "P1"]) }
    \cup { Behaviour("Kademlia", e) : e \in KademliaEvents }

on_ping(evs, event) == Append(evs, PingEvent(event))

on_identify(evs, event) == evs

\* the for loop of the RoutingUpdated arm
RECURSIVE PushPeerSeen(_, _, _)
PushPeerSeen(evs, peer, addresses) ==
    IF addresses = <<>> THEN evs
    ELSE PushPeerSeen(Append(evs, PeerSeen(peer, Head(addresses))), peer, Tail(addresses))

\* on_kademlia reporting only the first address of a RoutingUpdated
on_kademlia_first_address(evs, event) ==
    CASE event.kind = "RoutingUpdated" ->
            Append(evs, PeerSeen(event.peer, Head(event.addresses)))
      [] event.kind = "RoutablePeer"   -> Append(evs, PeerSeen(event.peer, event.address))
      [] OTHER                         -> evs

on_kademlia(evs, event) ==
    CASE event.kind = "RoutingUpdated" -> PushPeerSeen(evs, event.peer, event.addresses)
      [] event.kind = "RoutablePeer"   -> Append(evs, PeerSeen(event.peer, event.address))
      [] OTHER                         -> evs

\* the match of poll_event on one swarm event
on_swarm_event(evs, e) ==
    CASE e.type = "NewListenAddr" -> evs
      [] e.type = "Behaviour" ->
            (CASE e.proto = "Ping"     -> on_ping(evs, e.event)
               [] e.proto = "Identify" -> on_identify(evs, e.event)
               [] e.proto = "Kademlia" -> on_kademlia(evs, e.event))
      [] OTHER -> evs

\* Poll<Option<Event>>
NotPolled == [poll |-> "NotPolled"]
Pending == [poll |-> "Pending"]
Ready(item) == [poll |-> "Ready", item |-> item]

\* poll_next ending the stream after a ping event
poll_next_item_ending(event) == IF event.tag = "Ping" THEN None ELSE Some(event)

\* Stream::poll_next: self.poll_event(cx).map(Some)
poll_next_item(event) == Some(event)

\* FusedStream::is_terminated
is_terminated == FALSE

\* the swarm polled at most once before the pop
LoopCondOnce == events = <<>> /\ swarmed = 0

\* while self.events.is_empty()
LoopCond == events = <<>>

\* the stream is polled: poll_event is entered
PollCall ==
    /\ tpc = "idle"
    /\ ~panicked
    /\ tpc' = "loop"
    /\ UNCHANGED <<events, ret, swarmed, lastSwarm, panicked>>
    /\ UNCHANGED <<dialed, obsVars, schedVars>>

\* the loop body with the swarm Ready: one swarm event is translated.
\* (libp2p's Swarm stream never ends, so the unwrap() of its item holds.)
SwarmReady(e) ==
    /\ tpc = "loop"
    /\ LoopCond
    /\ swarmed < MaxSwarm
    /\ events' = on_swarm_event(events, e)
    /\ swarmed' = swarmed + 1
    /\ lastSwarm' = Some(e)
    /\ UNCHANGED <<tpc, ret, panicked>>
    /\ UNCHANGED <<dialed, obsVars, schedVars>>

\* the loop body with the swarm Pending: ready! returns Pending
SwarmPending ==
    /\ tpc = "loop"
    /\ LoopCond
    /\ ret' = Pending
    /\ tpc' = "idle"
    /\ UNCHANGED <<events, swarmed, lastSwarm, panicked>>
    /\ UNCHANGED <<dialed, obsVars, schedVars>>

\* the event at the back of the buffer returned instead
PopBack ==
    /\ tpc = "loop"
    /\ ~LoopCond
    /\ tpc' = "idle"
    /\ ret' = Ready(poll_next_item(events[Len(events)]))
    /\ events' = SubSeq(events, 1, Len(events) - 1)
    /\ UNCHANGED <<swarmed, lastSwarm, panicked>>
    /\ UNCHANGED <<dialed, obsVars, schedVars>>

\* Poll::Ready(self.events.pop_front().unwrap())
PopFront ==
    /\ tpc = "loop"
    /\ ~LoopCond
    /\ tpc' = "idle"
    /\ IF events = <<>>
       THEN /\ panicked' = TRUE
            /\ UNCHANGED <<events, ret>>
       ELSE /\ ret' = Ready(poll_next_item(Head(events)))
            /\ events' = Tail(events)
            /\ UNCHANGED panicked
    /\ UNCHANGED <<swarmed, lastSwarm>>
    /\ UNCHANGED <<dialed, obsVars, schedVars>>

TransportIdle ==
    /\ events = <<>>
    /\ tpc = "idle"
    /\ ret = NotPolled
    /\ swarmed = 0
    /\ lastSwarm = None
    /\ panicked = FALSE
    /\ dialed = BootNodes

-----------------------------------------------------------------------------
(* scheduler.rs *)

\* the fields of WorkerStatus that serde requires (the others are Options)
RequiredFields ==
    {"peer_id", "address", "last_ping", "jailed", "assigned_units", "assigned_bytes",
     "stored_bytes", "num_missing_chunks", "last_assignment", "last_dial_time",
     "last_dial_ok"}

\* the fields of WorkerStatus that are u64
U64Fields ==
    {"last_ping", "assigned_bytes", "stored_bytes", "num_missing_chunks",
     "last_assignment", "last_dial_time"}

\* #[derive(serde::Deserialize)] on WorkerStatus, on one JSON object (a
\* function from its keys): every required field is there and every u64
\* field holds a number that is not negative
Deserializes(object) ==
    /\ RequiredFields \subseteq DOMAIN object
    /\ \A f \in U64Fields : object[f] >= 0

\* what the GET of PINGS_URL gives: a transport error, a body that is no JSON
\* array, or a JSON array of objects
FetchError == [kind |-> "error"]
NotAnArray == [kind |-> "body", array |-> FALSE]
JsonArray(objects) == [kind |-> "body", array |-> TRUE, objects |-> objects]

\* request_pings_status: Err, or Ok with the whole Vec<WorkerStatus>
request_pings_status(response) ==
    IF response.kind = "error" THEN [ok |-> FALSE]
    ELSE IF ~response.array THEN [ok |-> FALSE]
    ELSE IF \E i \in 1..Len(response.objects) : ~Deserializes(response.objects[i])
         THEN [ok |-> FALSE]
    ELSE [ok |-> TRUE, value |-> response.objects]

\* the for loop of collect_scheduler_metrics
RECURSIVE report_all_statuses(_, _)
report_all_statuses(s, statuses) ==
    IF statuses = <<>> THEN s
    ELSE report_all_statuses(report_scheduler_status(s, Head(statuses)), Tail(statuses))

\* the statuses reported one by one as the elements of the array parse
RECURSIVE report_while_parsing(_, _)
report_while_parsing(s, objects) ==
    IF objects = <<>> THEN Ok(s)
    ELSE IF ~Deserializes(Head(objects)) THEN Err(s)
    ELSE report_while_parsing(report_scheduler_status(s, Head(objects)), Tail(objects))

\* collect_scheduler_metrics writing the gauges while the body is parsed
collect_scheduler_metrics_streaming(s, response) ==
    IF response.kind = "error" THEN Err(s)
    ELSE IF ~response.array THEN Err(s)
    ELSE report_while_parsing(s, response.objects)

\* collect_scheduler_metrics: the error of request_pings_status leaves by ?
\* before the loop
collect_scheduler_metrics(s, response) ==
    LET pings_status == request_pings_status(response)
    IN  IF ~pings_status.ok THEN Err(s)
        ELSE Ok(report_all_statuses(s, pings_status.value))

\* a well-formed element of the array
WorkerJson(peer_id, missing, units, assigned, stored) ==
    [peer_id |-> peer_id, address |-> "/dns4/worker", last_ping |-> 1700000, jailed |-> FALSE,
     assigned_units |-> units, assigned_bytes |-> assigned, stored_bytes |-> stored,
     num_missing_chunks |-> missing, last_assignment |-> 1690000, last_dial_time |-> 1700001,
     last_dial_ok |-> TRUE]

\* the object without one of its keys
Without(object, key) == [f \in DOMAIN object \ {key} |-> object[f]]

WorkerObjects ==
    { WorkerJson(to_string("P1"), 5, <<"a", "b">>, 2048, 4096),
      WorkerJson(to_string("P1"), 0, <<>>, 0, 8192),
      WorkerJson(to_string("P2"), 7, <<"c">>, 1024, 0),
      Without(WorkerJson(to_string("P2"), 7, <<"c">>, 1024, 0), "num_missing_chunks"),
      Without(WorkerJson(to_string("P1"), 5, <<"a", "b">>, 2048, 4096), "peer_id"),
      WorkerJson(to_string("P2"), 7, <<"c">>, -1, 0) }

Responses ==
    { FetchError, NotAnArray }
    \cup { JsonArray(objects) : objects \in UNION { [1..n -> WorkerObjects] : n \in 0..MaxWorkers } }

\* one call of collect_scheduler_metrics
CollectCall(response) ==
    /\ sched.calls < MaxCalls
    /\ LET outcome == collect_scheduler_metrics(store, response)
       IN  /\ store' = outcome.store
           /\ sched' = [calls |-> sched.calls + 1, response |-> Some(response),
                        ok |-> outcome.ok]
    /\ UNCHANGED <<stream, cancelled, inflight, started, done, last, atCancel, returned,
                   result, overflow_checks, crashed>>
    /\ UNCHANGED trVars

SchedulerIdle == sched = [calls |-> 0, response |-> None, ok |-> TRUE]

-----------------------------------------------------------------------------
Init == ObserverInit /\ TransportIdle /\ SchedulerIdle

Next ==
    \/ \E msg \in MixedMsgs : Pull(msg, MaxMsgs)
    \/ \E msg \in MixedMsgs : Finish(msg)
    \/ Cancel
    \/ TakeUntilFires
    \/ EndOfStream
    \/ Return

Spec == Init /\ [][Next]_vars
\* heartbeats only
NextPing ==
    \/ \E msg \in PingMsgs : Pull(msg, MaxMsgs)
    \/ \E msg \in PingMsgs : Finish(msg)
    \/ Cancel
    \/ TakeUntilFires
    \/ EndOfStream
    \/ Return

SpecPing == Init /\ [][NextPing]_vars

\* LogsCollected only
NextLogs ==
    \/ \E msg \in LogsMsgs : Pull(msg, MaxMsgs)
    \/ \E msg \in LogsMsgs : Finish(msg)
    \/ Cancel
    \/ TakeUntilFires
    \/ EndOfStream
    \/ Return

SpecLogs == Init /\ [][NextLogs]_vars

\* QueryLogs batches only
NextQuery ==
    \/ \E msg \in QueryMsgs : Pull(msg, MaxQueryMsgs)
    \/ \E msg \in QueryMsgs : Finish(msg)
    \/ Cancel
    \/ TakeUntilFires
    \/ EndOfStream
    \/ Return

SpecQuery == Init /\ [][NextQuery]_vars

\* the loop under load: more messages than CONCURRENT_MESSAGES
NextRun ==
    \/ \E msg \in RunMsgs : Pull(msg, MaxRunMsgs)
    \/ \E msg \in RunMsgs : Finish(msg)
    \/ Cancel
    \/ TakeUntilFires
    \/ EndOfStream
    \/ Return

SpecRun == Init /\ [][NextRun]_vars

\* the executor keeps polling run's future: a future in flight completes, the
\* stream is polled again while there is room, and run returns once it can
FairSpecRun ==
    /\ Init
    /\ [][NextRun]_vars
    /\ WF_vars(\E msg \in RunMsgs : Finish(msg))
    /\ WF_vars(TakeUntilFires)
    /\ WF_vars(Return)

\* the Transport polled as a stream
NextTransport ==
    \/ PollCall
    \/ \E e \in SwarmEvents : SwarmReady(e)
    \/ SwarmPending
    \/ PopFront

SpecTransport == Init /\ [][NextTransport]_vars

\* total_chunks on one heartbeat: the stream yields one message, whose
\* stored ranges are the input, in a build of either profile
NextChunks ==
    \/ started = EmptyBag /\ \E msg \in ChunkMsgs : Pull(msg, MaxMsgs)
    \/ \E msg \in BagToSet(inflight) : Finish(msg)
    \/ \E msg \in BagToSet(inflight) : Panic(msg)
    \/ Cancel
    \/ TakeUntilFires
    \/ EndOfStream
    \/ Return

SpecChunks == Init /\ [][NextChunks]_vars

\* the scheduler status update, called again and again
NextScheduler == \E response \in Responses : CollectCall(response)

SpecScheduler == Init /\ [][NextScheduler]_vars

-----------------------------------------------------------------------------
(* Vocabulary of the properties *)

\* the step completes the future of one message, which is then last'
FinishStep == done' = done + 1
Finished == Unwrap(last')

Decodes(m) == m.content.wellformed
HasKind(m, kind) ==
    Decodes(m) /\ IsSome(m.content.msg) /\ Unwrap(m.content.msg).kind = kind
Payload(m) == Unwrap(m.content.msg)
Sender(m) == Unwrap(m.peer_id)

WorkerLabel(p) == Some(to_string(p))

\* a heartbeat as the specification accepts it from sender p
HeartbeatValid(ping, p) ==
    /\ ping.intact
    /\ ping.signed_by = p
    /\ ping.worker_id = Some(to_string(p))
    /\ IsSome(ping.version)

\* a query record the specification counts as invalid from sender p
RecordInvalid(q, p) ==
    \/ ~q.intact
    \/ q.signed_by # p
    \/ q.worker_id # to_string(p)
    \/ ~IsSome(q.result)
    \/ ~IsSome(q.seq_no)

\* sum of the entries of a family
RECURSIVE Total(_)
Total(family) ==
    IF DOMAIN family = {} THEN 0
    ELSE LET k == CHOOSE x \in DOMAIN family : TRUE
         IN  family[k] + Total([x \in DOMAIN family \ {k} |-> family[x]])

QueryUpdates(s) ==
    Total(s.QUERIES_OK) + Total(s.QUERIES_BAD_REQUEST) + Total(s.QUERIES_SERVER_ERROR)

-----------------------------------------------------------------------------
(* C1: a heartbeat delivered with sender P is applied to the store (ping    *)
(* counter of (P, version) plus one, stored_bytes and stored_chunks of P    *)
(* set) exactly when it is intact, signed by P, names P as its worker and   *)
(* has a version; otherwise the ping counter and both gauges stay as they   *)
(* were for every peer.                                                     *)
C1_HeartbeatAppliedIffValid ==
    [][ (FinishStep /\ HasKind(Finished, "Ping") /\ IsSome(Finished.peer_id)) =>
          LET p == Sender(Finished)
              ping == Payload(Finished)
          IN  IF HeartbeatValid(ping, p)
              THEN /\ store'.PING =
                        Inc(store.PING, <<to_string(p), Unwrap(ping.version)>>)
                   /\ store'.STORED_BYTES =
                        Set(store.STORED_BYTES, WorkerLabel(p), ping.stored_bytes)
                   /\ store'.STORED_CHUNKS =
                        Set(store.STORED_CHUNKS, WorkerLabel(p), total_chunks(ping.stored_ranges))
              ELSE /\ store'.PING = store.PING
                   /\ store'.STORED_BYTES = store.STORED_BYTES
                   /\ store'.STORED_CHUNKS = store.STORED_CHUNKS ]_vars

\* a heartbeat of P1 was applied and then one that names another worker was refused
C1_Witness ==
    /\ done = 2
    /\ HasKind(Unwrap(last), "Ping")
    /\ Sender(Unwrap(last)) = "P1"
    /\ Payload(Unwrap(last)).intact
    /\ Payload(Unwrap(last)).signed_by = "P1"
    /\ Payload(Unwrap(last)).worker_id = Some(to_string("P2"))
    /\ Value(store.PING, <<to_string("P1"), "1.2.3">>) = 1
    /\ Value(store.STORED_BYTES, WorkerLabel("P1")) = 1000
    /\ Value(store.INVALID_MESSAGES, WorkerLabel("P1")) = 1

-----------------------------------------------------------------------------
(* C2: a LogsCollected message from sender S sets the last-collected-log    *)
(* gauge of each peer it lists when S is the configured collector, and      *)
(* leaves every last-collected-log gauge as it was when S is anyone else.   *)
C2_LogsCollectedOnlyFromCollector ==
    [][ (FinishStep /\ HasKind(Finished, "LogsCollected") /\ IsSome(Finished.peer_id)) =>
          LET seqs == Payload(Finished).sequence_numbers
          IN  IF Sender(Finished) = logs_collector_id
              THEN /\ DOMAIN store'.LAST_COLLECTED_LOG =
                        DOMAIN store.LAST_COLLECTED_LOG \cup { Some(k) : k \in DOMAIN seqs }
                   /\ \A k \in DOMAIN seqs : store'.LAST_COLLECTED_LOG[Some(k)] = seqs[k] + 1
                   /\ \A l \in DOMAIN store.LAST_COLLECTED_LOG :
                        l \notin { Some(k) : k \in DOMAIN seqs } =>
                            store'.LAST_COLLECTED_LOG[l] = store.LAST_COLLECTED_LOG[l]
              ELSE store'.LAST_COLLECTED_LOG = store.LAST_COLLECTED_LOG ]_vars

\* the collector's message was applied and then another sender's, listing two
\* peers, was refused whole
C2_Witness ==
    /\ done = 2
    /\ HasKind(Unwrap(last), "LogsCollected")
    /\ Sender(Unwrap(last)) = "P1"
    /\ Cardinality(DOMAIN Payload(Unwrap(last)).sequence_numbers) = 2
    /\ DOMAIN store.LAST_COLLECTED_LOG = { Some(to_string("P1")) }
    /\ store.LAST_COLLECTED_LOG[Some(to_string("P1"))] = 6
    /\ Value(store.INVALID_MESSAGES, WorkerLabel("P1")) = 1

-----------------------------------------------------------------------------
(* C3: a batch of N query records of which M are invalid adds N - M to the  *)
(* query counters and M to the invalid-message counter, wherever the        *)
(* invalid records stand in the batch.                                      *)
C3_PerRecordValidation ==
    [][ (FinishStep /\ HasKind(Finished, "QueryLogs") /\ IsSome(Finished.peer_id)) =>
          LET batch == Payload(Finished).queries_executed
              n == Len(batch)
              m == Cardinality({ i \in 1..n : RecordInvalid(batch[i], Sender(Finished)) })
          IN  /\ QueryUpdates(store') - QueryUpdates(store) = n - m
              /\ Total(store'.INVALID_MESSAGES) - Total(store.INVALID_MESSAGES) = m ]_vars

-----------------------------------------------------------------------------
\* a message the loop has to refuse, as the specification lists the failures
FailsValidation(m) ==
    \/ ~Decodes(m)
    \/ ~IsSome(m.peer_id)
    \/ /\ HasKind(m, "Ping")
       /\ ~HeartbeatValid(Payload(m), Sender(m))
    \/ /\ HasKind(m, "LogsCollected")
       /\ Sender(m) # logs_collector_id
    \/ /\ HasKind(m, "QueryLogs")
       /\ \E i \in 1..Len(Payload(m).queries_executed) :
            RecordInvalid(Payload(m).queries_executed[i], Sender(m))

(* C4: a message that fails validation adds one to the invalid-message      *)
(* counter labelled with its sender when the transport gave a sender, and   *)
(* to the unlabelled counter only when it gave none.                        *)
C4_InvalidLabelledBySender ==
    [][ (FinishStep /\ FailsValidation(Finished)) =>
          IF IsSome(Finished.peer_id)
          THEN /\ Value(store'.INVALID_MESSAGES, WorkerLabel(Sender(Finished))) =
                    Value(store.INVALID_MESSAGES, WorkerLabel(Sender(Finished))) + 1
               /\ Value(store'.INVALID_MESSAGES, None) = Value(store.INVALID_MESSAGES, None)
          ELSE Value(store'.INVALID_MESSAGES, None) =
                    Value(store.INVALID_MESSAGES, None) + 1 ]_vars

-----------------------------------------------------------------------------
(* C5: never more than CONCURRENT_MESSAGES messages are in flight, and a    *)
(* message is taken from the stream only while fewer are.                   *)
C5_AtMostKInFlight ==
    /\ [](InFlight <= CONCURRENT_MESSAGES)
    /\ [][Pulled' > Pulled => InFlight < CONCURRENT_MESSAGES]_vars

\* the limit is reached with a further message already taken and completed
C5_Witness == InFlight = CONCURRENT_MESSAGES /\ Pulled > CONCURRENT_MESSAGES

-----------------------------------------------------------------------------
\* the valid heartbeat of P1 as a message
ValidPingMsg == Message(Some("P1"), Encoded(Some(ValidPing("P1"))))

(* C6: once the token is cancelled no further message is started; run       *)
(* returns only with nothing in flight and with every started message       *)
(* counted exactly once in the store; and after cancellation run returns.   *)
C6_CancellationDrains ==
    /\ [][cancelled => started' = started]_vars
    /\ [](returned =>
            /\ InFlight = 0
            /\ done = Pulled
            /\ Value(store.PING, <<to_string("P1"), "1.2.3">>) = CopiesIn(ValidPingMsg, started)
            /\ Total(store.PING) = Pulled
            /\ Total(store.INVALID_MESSAGES) = 0)
    /\ (cancelled ~> returned)

\* cancelled with all CONCURRENT_MESSAGES futures in flight, and returned
C6_Witness ==
    /\ returned
    /\ cancelled
    /\ atCancel = CONCURRENT_MESSAGES
    /\ Total(store.PING) + Total(store.INVALID_MESSAGES) = CONCURRENT_MESSAGES

-----------------------------------------------------------------------------
(* C7: invalid messages never end the loop: run returns only after          *)
(* cancellation or the end of the stream, it returns Ok, and a valid        *)
(* heartbeat is applied whatever was refused before it.                     *)
C7_InvalidNeverEndsLoop ==
    /\ [](returned => result = Some("Ok") /\ stream = "done")
    /\ [][FinishStep => stream' = stream /\ returned' = returned /\ result' = result]_vars
    /\ [][(FinishStep /\ Finished = ValidPingMsg) =>
            store'.PING = Inc(store.PING, <<to_string("P1"), "1.2.3">>)]_vars

\* a refused message, then a valid heartbeat applied, then run returned Ok
C7_Witness ==
    /\ returned
    /\ result = Some("Ok")
    /\ done = 2
    /\ last = Some(ValidPingMsg)
    /\ Total(store.INVALID_MESSAGES) = 1
    /\ Value(store.PING, <<to_string("P1"), "1.2.3">>) = 1

-----------------------------------------------------------------------------
\* the step ends a call of poll_event
Returns == tpc = "loop" /\ tpc' = "idle"

(* C8: poll_event returns Ready only with the event at the front of a       *)
(* non-empty buffer, which it removes and nothing else; with the buffer     *)
(* empty the call takes swarm output or returns Pending; pop_front never    *)
(* meets an empty buffer.                                                   *)
C8_ReadyOnlyFromBuffer ==
    /\ [](~panicked)
    /\ [][(Returns /\ events # <<>>) =>
            /\ ret' = Ready(Some(Head(events)))
            /\ events' = Tail(events)]_vars
    /\ [][(Returns /\ events = <<>>) => ret' = Pending /\ events' = <<>>]_vars
    /\ [][(tpc = "loop" /\ events = <<>> /\ ~Returns) => swarmed' = swarmed + 1]_vars

\* a call found the swarm pending, a later call returned one of two buffered events
C8_Witness ==
    /\ tpc = "idle"
    /\ ret.poll = "Ready"
    /\ Len(events) = 1
    /\ swarmed = 2

-----------------------------------------------------------------------------
(* C9: the Transport stream never ends: poll_next returns Pending or        *)
(* Ready(Some(event)), never Ready(None), and is_terminated is false.       *)
C9_StreamNeverTerminates ==
    /\ ret.poll = "Ready" => IsSome(ret.item)
    /\ ~is_terminated

\* every swarm event of the run was taken and poll_next has returned a ping event
C9_Witness ==
    /\ swarmed = MaxSwarm
    /\ ret.poll = "Ready"
    /\ IsSome(ret.item)
    /\ Unwrap(ret.item).tag = "Ping"
    /\ tpc = "idle"

-----------------------------------------------------------------------------
\* the step takes one swarm event, which is then lastSwarm'
TakesSwarmEvent == swarmed' = swarmed + 1
Taken == Unwrap(lastSwarm')

(* C10: a discovery event buffers one PeerSeen per (peer, address) it       *)
(* carries, in order: n for a RoutingUpdated with n addresses, one for a    *)
(* RoutablePeer, none for any other; earlier reports of the peer do not     *)
(* matter.                                                                  *)
C10_OnePeerSeenPerPair ==
    [][(TakesSwarmEvent /\ Taken.type = "Behaviour" /\ Taken.proto = "Kademlia") =>
          LET e == Taken.event
          IN  CASE e.kind = "RoutingUpdated" ->
                     /\ Len(events') = Len(events) + Len(e.addresses)
                     /\ \A i \in 1..Len(e.addresses) :
                          events'[Len(events) + i] = PeerSeen(e.peer, e.addresses[i])
                     /\ SubSeq(events', 1, Len(events)) = events
                [] e.kind = "RoutablePeer" ->
                     events' = Append(events, PeerSeen(e.peer, e.address))
                [] OTHER -> events' = events ]_vars

\* P1 was delivered at one address and is buffered again at the other one
C10_Witness ==
    /\ ret = Ready(Some(PeerSeen("P1", "/ip4/10.0.0.1")))
    /\ IsSome(lastSwarm)
    /\ Unwrap(lastSwarm) = Behaviour("Kademlia", RoutingUpdated("P1", <<"/ip4/10.0.0.2">>))
    /\ events = <<PeerSeen("P1", "/ip4/10.0.0.2")>>

-----------------------------------------------------------------------------
(* C11: a message delivered without a sender reaches no handler: it adds    *)
(* one to the unlabelled invalid-message counter and leaves every other     *)
(* entry of every metric family as it was, whatever it carries.             *)
C11_NoSenderCountedOnce ==
    [][ (FinishStep /\ ~IsSome(Finished.peer_id)) =>
          /\ store' = [store EXCEPT !.INVALID_MESSAGES = Inc(@, None)]
          /\ Value(store'.INVALID_MESSAGES, None) = Value(store.INVALID_MESSAGES, None) + 1
          /\ crashed' = crashed ]_vars

\* bytes that are no envelope and then a valid heartbeat of P1, both without
\* a sender: two counts on the unlabelled counter and nothing else
C11_Witness ==
    /\ done = 2
    /\ last = Some(Message(None, Encoded(Some(ValidPing("P1")))))
    /\ store = [EmptyStore EXCEPT !.INVALID_MESSAGES = (None :> 2)]

-----------------------------------------------------------------------------
\* family after is family before but for the entry of labels
OnlyEntry(after, before, labels) ==
    /\ DOMAIN after = DOMAIN before \cup {labels}
    /\ \A l \in DOMAIN before \ {labels} : after[l] = before[l]

\* the families a heartbeat is reported in
PingFamilies == {"PING", "STORED_BYTES", "STORED_CHUNKS"}

(* C12: one valid heartbeat of P with version v, b stored bytes and ranges  *)
(* R adds exactly one to the ping counter of (P, v), sets stored_bytes of P *)
(* to b and stored_chunks of P to total_chunks(R), and leaves every other   *)
(* entry of every family as it was; the range [0,99] gives 100 chunks and   *)
(* the ranges [0,9], [20,25] give 16.                                       *)
C12_ValidHeartbeatEffect ==
    [][ (/\ FinishStep
         /\ HasKind(Finished, "Ping")
         /\ IsSome(Finished.peer_id)
         /\ HeartbeatValid(Payload(Finished), Sender(Finished))) =>
          LET p == Sender(Finished)
              ping == Payload(Finished)
              counter == <<to_string(p), Unwrap(ping.version)>>
          IN  /\ OnlyEntry(store'.PING, store.PING, counter)
              /\ store'.PING[counter] = Value(store.PING, counter) + 1
              /\ OnlyEntry(store'.STORED_BYTES, store.STORED_BYTES, WorkerLabel(p))
              /\ store'.STORED_BYTES[WorkerLabel(p)] = ping.stored_bytes
              /\ OnlyEntry(store'.STORED_CHUNKS, store.STORED_CHUNKS, WorkerLabel(p))
              /\ store'.STORED_CHUNKS[WorkerLabel(p)] = total_chunks(ping.stored_ranges)
              /\ ping.stored_ranges = Ranges0to99 => store'.STORED_CHUNKS[WorkerLabel(p)] = 100
              /\ ping.stored_ranges = RangesTwo => store'.STORED_CHUNKS[WorkerLabel(p)] = 16
              /\ \A f \in DOMAIN store \ PingFamilies : store'[f] = store[f] ]_vars

\* P2's heartbeat and then P1's (version 1.2.3, 1000 bytes, range [0,99]):
\* ping 1, stored_bytes 1000 and stored_chunks 100 for P1, P2's entries kept
C12_Witness ==
    /\ done = 2
    /\ last = Some(ValidPingMsg)
    /\ store = [EmptyStore EXCEPT
                  !.PING = (<<to_string("P1"), "1.2.3">> :> 1) @@ (<<to_string("P2"), "2.0.0">> :> 1),
                  !.STORED_BYTES = (WorkerLabel("P1") :> 1000) @@ (WorkerLabel("P2") :> 500),
                  !.STORED_CHUNKS = (WorkerLabel("P1") :> 100) @@ (WorkerLabel("P2") :> 16)]

-----------------------------------------------------------------------------
\* the step runs the closure on one message, to its end or to a panic
Processed == FinishStep \/ (crashed' /\ ~crashed)

\* the ranges of all datasets, as the set of their places
Places(datasets) ==
    { <<i, j>> : i \in 1..Len(datasets), j \in 1..MaxRanges + 1 } \cap
    UNION { { <<i, j>> : j \in 1..Len(datasets[i].ranges) } : i \in 1..Len(datasets) }
At(datasets, place) == datasets[place[1]].ranges[place[2]]

WellFormed(r) == r.begin <= r.end

\* sum over all datasets and ranges of the number of points in begin..end
SumOfLengths(datasets) ==
    Cardinality(UNION { { <<pl, k>> : k \in At(datasets, pl).begin .. At(datasets, pl).end } :
                          pl \in Places(datasets) })

(* C13: for stored ranges that all have begin <= end, the chunk count a     *)
(* heartbeat is reported with is the sum over all datasets and ranges of    *)
(* end - begin + 1 (16 for [0,9], [20,25]; 0 for no datasets).              *)
C13_TotalChunksIsSum ==
    [][ (/\ Processed
         /\ HasKind(Finished, "Ping")
         /\ \A pl \in Places(Payload(Finished).stored_ranges) :
               WellFormed(At(Payload(Finished).stored_ranges, pl))) =>
          /\ ~crashed'
          /\ store'.STORED_CHUNKS[WorkerLabel(Sender(Finished))] =
                SumOfLengths(Payload(Finished).stored_ranges) ]_vars

-----------------------------------------------------------------------------
\* what one range adds when the arithmetic wraps, counted as a set of
\* points: begin..end unless that is every value of the type, and for
\* end < begin the begin - end .. 2^RangeBits, unless begin = end + 1
Points(r) ==
    IF WellFormed(r)
    THEN IF r.end - r.begin = RangeMax THEN {} ELSE r.begin .. r.end
    ELSE IF r.begin - r.end = 1 THEN {} ELSE (r.begin - r.end) .. RangeModulus

SumOfPoints(datasets) ==
    Cardinality(UNION { { <<pl, k>> : k \in Points(At(datasets, pl)) } :
                          pl \in Places(datasets) })

IllFormedHeartbeat(m) ==
    /\ HasKind(m, "Ping")
    /\ \E pl \in Places(Payload(m).stored_ranges) :
          ~WellFormed(At(Payload(m).stored_ranges, pl))

-----------------------------------------------------------------------------
\* the step is one call of collect_scheduler_metrics, given Fetched
CollectStep == sched'.calls = sched.calls + 1
Fetched == Unwrap(sched'.response)

\* the fetch fails or the body does not parse as a list of snapshots
SnapshotFails(response) ==
    \/ response.kind = "error"
    \/ ~response.array
    \/ \E i \in 1..Len(response.objects) : ~Deserializes(response.objects[i])

SchedulerFamilies ==
    {"NUM_MISSING_CHUNKS", "ASSIGNED_UNITS", "ASSIGNED_BYTES", "LAST_ASSIGNMENT",
     "SCHEDULER_STORED_BYTES"}

\* the last snapshot of the list that is about peer
LastOf(objects, peer) ==
    objects[CHOOSE i \in 1..Len(objects) :
                /\ objects[i].peer_id = peer
                /\ \A j \in (i + 1)..Len(objects) : objects[j].peer_id # peer]

(* C14: a call of collect_scheduler_metrics whose fetch fails, or in whose   *)
(* JSON array any element fails to parse, returns an error and has written *)
(* no gauge; a call whose whole list parses returns Ok and has set the      *)
(* five scheduler gauges of every listed worker from its snapshot, and of   *)
(* no other worker.                                                         *)
C14_SchedulerUpdateAtomic ==
    [][ CollectStep =>
          IF SnapshotFails(Fetched)
          THEN /\ ~sched'.ok
               /\ store' = store
          ELSE LET objects == Fetched.objects
                   listed == { Some(objects[i].peer_id) : i \in 1..Len(objects) }
               IN  /\ sched'.ok
                   /\ \A f \in DOMAIN store \ SchedulerFamilies : store'[f] = store[f]
                   /\ \A f \in SchedulerFamilies :
                         /\ DOMAIN store'[f] = DOMAIN store[f] \cup listed
                         /\ \A l \in DOMAIN store[f] \ listed : store'[f][l] = store[f][l]
                   /\ \A i \in 1..Len(objects) :
                         LET status == LastOf(objects, objects[i].peer_id)
                             worker == Some(status.peer_id)
                         IN  /\ store'.NUM_MISSING_CHUNKS[worker] = status.num_missing_chunks
                             /\ store'.ASSIGNED_UNITS[worker] = Len(status.assigned_units)
                             /\ store'.ASSIGNED_BYTES[worker] = status.assigned_bytes
                             /\ store'.LAST_ASSIGNMENT[worker] = status.last_assignment
                             /\ store'.SCHEDULER_STORED_BYTES[worker] = status.stored_bytes ]_vars

\* P1's snapshot (5 missing chunks, units a and b, 2048 assigned bytes) was
\* written by one call; the next call got P2's snapshot followed by an
\* element without num_missing_chunks, returned an error and wrote nothing
C14_Witness ==
    /\ sched.calls = 2
    /\ ~sched.ok
    /\ Unwrap(sched.response).kind = "body"
    /\ Unwrap(sched.response).array
    /\ Len(Unwrap(sched.response).objects) = 2
    /\ Deserializes(Unwrap(sched.response).objects[1])
    /\ Unwrap(sched.response).objects[1].peer_id = to_string("P2")
    /\ ~Deserializes(Unwrap(sched.response).objects[2])
    /\ store.NUM_MISSING_CHUNKS = (WorkerLabel("P1") :> 5)
    /\ store.ASSIGNED_UNITS = (WorkerLabel("P1") :> 2)
    /\ store.ASSIGNED_BYTES = (WorkerLabel("P1") :> 2048)

-----------------------------------------------------------------------------
\* a LogsCollected message the observer accepts
AcceptedLogs(m) ==
    /\ HasKind(m, "LogsCollected")
    /\ IsSome(m.peer_id)
    /\ Sender(m) = logs_collector_id

\* the value an accepted message writes to the gauge of peer k
Written(m, k) == Payload(m).sequence_numbers[k] + 1

Lists(m, l) == l \in { Some(k) : k \in DOMAIN Payload(m).sequence_numbers }

(* C15: the last-collected-log gauge of a peer shows what the accepted      *)
(* update that completed last wrote for it, whatever was written before: a  *)
(* gauge changes only when an accepted update that lists its peer           *)
(* completes, and then to the value of that update, greater or smaller.     *)
C15_LastWriteWins ==
    /\ []((IsSome(last) /\ AcceptedLogs(Unwrap(last))) =>
            \A k \in DOMAIN Payload(Unwrap(last)).sequence_numbers :
                store.LAST_COLLECTED_LOG[Some(k)] = Written(Unwrap(last), k))
    /\ [][\A l \in DOMAIN store'.LAST_COLLECTED_LOG :
            Value(store'.LAST_COLLECTED_LOG, l) # Value(store.LAST_COLLECTED_LOG, l) =>
                /\ FinishStep
                /\ AcceptedLogs(Finished)
                /\ Lists(Finished, l)]_vars
    /\ [][DOMAIN store.LAST_COLLECTED_LOG \subseteq DOMAIN store'.LAST_COLLECTED_LOG]_vars

\* the collector's update with sequence number 5 for P1 completed and then
\* its update with 2: the gauge fell from 6 to 3
C15_Witness ==
    /\ done = 2
    /\ last = Some(Message(Some("LC"), Encoded(Some(LogsCollected((to_string("P1") :> 2))))))
    /\ BagIn(Message(Some("LC"), Encoded(Some(LogsCollected((to_string("P1") :> 5))))), started)
    /\ store.LAST_COLLECTED_LOG = (Some(to_string("P1")) :> 3)

-----------------------------------------------------------------------------
-----------------------------------------------------------------------------
\* the messages whose futures have completed, as a bag
Completed == started (-) inflight

\* copies in bag of the messages of the set msgs
RECURSIVE CopiesOf(_, _)
CopiesOf(bag, msgs) ==
    IF msgs = {} THEN 0
    ELSE LET m == CHOOSE x \in msgs : TRUE
         IN  CopiesIn(m, bag) + CopiesOf(bag, msgs \ {m})

\* the invalid-message label the loop counts the message on, if any: a
\* message that does not decode or has no sender goes to the unlabelled
\* entry, one that its handler refuses to its sender's entry
CountedInvalidOn(m, label) ==
    IF ~Decodes(m) \/ ~IsSome(m.peer_id) THEN label = None
    ELSE FailsValidation(m) /\ label = WorkerLabel(Sender(m))

\* the ping label the message is counted on, if any
CountedPingOn(m, label) ==
    /\ HasKind(m, "Ping")
    /\ IsSome(m.peer_id)
    /\ HeartbeatValid(Payload(m), Sender(m))
    /\ label = <<to_string(Sender(m)), Unwrap(Payload(m).version)>>

InvalidLabels == {None} \cup { WorkerLabel(p) : p \in PeerIds }
PingLabels == { <<to_string(p), v>> : p \in PeerIds, v \in {"1.2.3", "2.0.0"} }

\* the family holds for every label the count, and no entry for a label
\* never counted on
CountsExactly(family, labels, Counted(_, _)) ==
    /\ DOMAIN family \subseteq labels
    /\ \A l \in labels :
          LET n == CopiesOf(Completed, { m \in BagToSet(Completed) : Counted(m, l) })
          IN  /\ Value(family, l) = n
              /\ l \in DOMAIN family <=> n > 0

(* C16: whatever the interleaving of the messages in flight, every entry of *)
(* the invalid-message and of the ping counter equals the number of         *)
(* completed messages counted on its labels; an entry exists from the first *)
(* count on, and never decreases or disappears.                             *)
C16_NoLostIncrement ==
    /\ [](CountsExactly(store.INVALID_MESSAGES, InvalidLabels, CountedInvalidOn))
    /\ [](CountsExactly(store.PING, PingLabels, CountedPingOn))
    /\ [][\A f \in {"INVALID_MESSAGES", "PING"} :
            \A l \in DOMAIN store[f] :
                l \in DOMAIN store'[f] /\ store'[f][l] >= store[f][l]]_vars

\* the same valid heartbeat twice and both completed: the entry shows 2
C16_Witness ==
    /\ done = 2
    /\ CopiesIn(ValidPingMsg, started) = 2
    /\ store.PING = (<<to_string("P1"), "1.2.3">> :> 2)
    /\ store.INVALID_MESSAGES = EmptyFamily

-----------------------------------------------------------------------------
\* the addresses a discovery event tells of
Learned(e) ==
    CASE e.kind = "RoutingUpdated" -> { e.addresses[i] : i \in 1..Len(e.addresses) }
      [] e.kind = "RoutablePeer"   -> { e.address }
      [] OTHER                     -> {}

(* C17: when a discovery event tells the transport of an address of a peer, *)
(* the transport asks the swarm to dial it (the address or its peer), and   *)
(* no dial ends the stream or makes an unwrap fail.                         *)
C17_DiscoveryDials ==
    /\ [][(TakesSwarmEvent /\ Taken.type = "Behaviour" /\ Taken.proto = "Kademlia") =>
            \A a \in Learned(Taken.event) :
                a \in dialed' \/ Taken.event.peer \in dialed']_vars
    /\ [](~panicked)

-----------------------------------------------------------------------------
\* a swarm output that translates to no event
ZeroEvents(e) ==
    \/ e.type # "Behaviour"
    \/ e.proto = "Identify"
    \/ e.proto = "Kademlia" /\ e.event.kind \notin {"RoutingUpdated", "RoutablePeer"}

(* C19: the buffer is first in, first out: a call that returns an event     *)
(* returns the one at the front and leaves the others in their order,       *)
(* events are buffered at the back, and the buffer shrinks only by the one  *)
(* event a returning call delivers; a swarm output that translates to no    *)
(* event leaves the call in its loop with nothing returned.                 *)
C19_FifoExactlyOnce ==
    /\ [][(Returns /\ events # <<>>) =>
            /\ ret'.poll = "Ready"
            /\ ret'.item = Some(events[1])
            /\ Len(events') = Len(events) - 1
            /\ \A i \in 1..Len(events') : events'[i] = events[i + 1]]_vars
    /\ [][Len(events') < Len(events) => Returns]_vars
    /\ [][TakesSwarmEvent =>
            /\ Len(events') >= Len(events)
            /\ SubSeq(events', 1, Len(events)) = events]_vars
    /\ [][(TakesSwarmEvent /\ ZeroEvents(Taken)) =>
            /\ events' = events
            /\ tpc' = "loop"
            /\ ret' = ret]_vars
    /\ [][(Returns /\ ret'.poll = "Ready") => events # <<>>]_vars

\* after a swarm output without event, a RoutingUpdated buffered two
\* addresses of P1: the first was delivered, the second is at the front
C19_Witness ==
    /\ swarmed = 2
    /\ tpc = "idle"
    /\ Unwrap(lastSwarm) =
          Behaviour("Kademlia", RoutingUpdated("P1", <<"/ip4/10.0.0.1", "/ip4/10.0.0.2">>))
    /\ ret = Ready(Some(PeerSeen("P1", "/ip4/10.0.0.1")))
    /\ events = <<PeerSeen("P1", "/ip4/10.0.0.2")>>

-----------------------------------------------------------------------------
\* the kinds of payload handle_msg has an arm for
HandledKinds == {"Ping", "LogsCollected", "QueryLogs"}

\* an envelope that decodes, from a known sender, with no payload or with
\* one of another kind
Unexpected(m) ==
    /\ Decodes(m)
    /\ IsSome(m.peer_id)
    /\ \/ ~IsSome(m.content.msg)
       \/ Payload(m).kind \notin HandledKinds

(* C21: an envelope that decodes and comes from a known sender, but has no  *)
(* payload or one that is none of heartbeat, logs-collected and query       *)
(* batch, leaves every entry of every metric family as it was: nothing is   *)
(* applied and nothing is counted as invalid, for the sender or unlabelled. *)
C21_UnexpectedPayloadIgnored ==
    [][ (FinishStep /\ Unexpected(Finished)) =>
          /\ store' = store
          /\ Total(store'.INVALID_MESSAGES) = Total(store.INVALID_MESSAGES)
          /\ crashed' = crashed ]_vars

\* an envelope without payload and one with another payload, both from P1,
\* have completed: the store is as it was at the start
C21_Witness ==
    /\ done = 2
    /\ last = Some(Message(Some("P1"), Encoded(Some(OtherMsg))))
    /\ BagIn(Message(Some("P1"), Encoded(None)), started)
    /\ store = EmptyStore

====
